---- MODULE Spec2Model ----
(***************************************************************************)
(* Route origin validation (rov.ROV): the RPKI and IRR prefix trees, the   *)
(* delegated-stats prefix tree and AS interval map, the three loaders and  *)
(* the two queries check() and lookup().                                   *)
(*                                                                         *)
(* A prefix string "a.b.c.d/len" is a record [addr, len]: addr is the      *)
(* address as a tuple of AddrBits bits, len the text after the '/'.  The   *)
(* string may carry host bits; a radix node's prefix is the network        *)
(* (host bits cleared), which is how the tree prints it.                   *)
(***************************************************************************)
EXTENDS Integers, Sequences, FiniteSets, TLC

VARIABLES disk, roas, delegated, loads, result, call, loader

vars == <<disk, roas, delegated, loads, result, call, loader>>

(***************************************************************************)
(* Bounds of the model.                                                    *)
(***************************************************************************)
\* width of an address in bits (32 for IPv4, 128 for IPv6 in the program)
AddrBits == 2
\* records in the RPKI and IRR files together
MaxRecs == 2
\* calls of the load_* methods on one engine, all three together
MaxLoads == 3
\* largest AS number of a delegation line's range
MaxAS == 3
\* lines of the delegated-stats file
MaxLines == 3

Bit == {0, 1}
Addrs == [1..AddrBits -> Bit]
PrefixStr == [addr : Addrs, len : 0..AddrBits]
ASNs == {1, 2}

(***************************************************************************)
(* radix.Radix                                                             *)
(* A tree is a function from the networks it holds to each node's data.    *)
(***************************************************************************)
Mask(addr, len) == [i \in 1..AddrBits |-> IF i <= len THEN addr[i] ELSE 0]

\* the prefix a node prints for the prefix string p
Network(p) == [addr |-> Mask(p.addr, p.len), len |-> p.len]

Networks == {Network(p) : p \in PrefixStr}

Covers(n, p) == n.len <= p.len /\ \A i \in 1..n.len : n.addr[i] = p.addr[i]

Radix == << >>

NoNode == [addr |-> << >>, len |-> -1]

search_exact(rtree, p) == IF Network(p) \in DOMAIN rtree THEN Network(p) ELSE NoNode

\* a new node carries an empty data dict
add(rtree, p) == [n \in DOMAIN rtree \cup {Network(p)} |->
                    IF n \in DOMAIN rtree THEN rtree[n] ELSE << >>]

\* search_covering comparing the lengths alone
search_covering_by_length(rtree, p) ==
    LET held == {n \in DOMAIN rtree : n.len <= p.len}
        cand == [i \in 1..(p.len + 1) |-> p.len + 1 - i]
        lens == SelectSeq(cand, LAMBDA l : \E n \in held : n.len = l)
    IN  [i \in 1..Len(lens) |-> CHOOSE n \in held : n.len = lens[i]]

\* the nodes covering p, most specific first
search_covering(rtree, p) ==
    LET cand == [i \in 1..(p.len + 1) |->
                    [addr |-> Mask(p.addr, p.len + 1 - i), len |-> p.len + 1 - i]]
    IN  SelectSeq(cand, LAMBDA n : n \in DOMAIN rtree)

\* search_best returning the least specific covering node
search_best_least(rtree, p) ==
    LET rnodes == search_covering(rtree, p)
    IN  IF Len(rnodes) > 0 THEN rnodes[Len(rnodes)] ELSE NoNode

search_best(rtree, p) ==
    LET rnodes == search_covering(rtree, p)
    IN  IF Len(rnodes) > 0 THEN rnodes[1] ELSE NoNode

(***************************************************************************)
(* A node's data in the rpki and irr trees is a dict from AS number to the *)
(* list of its entries.  A dict keeps its keys in insertion order: it is a *)
(* sequence of [asn, roas] items.                                          *)
(***************************************************************************)
HasKey(data, asn) == \E i \in 1..Len(data) : data[i].asn = asn

KeyIndex(data, asn) == CHOOSE i \in 1..Len(data) : data[i].asn = asn

Get(data, asn) == data[KeyIndex(data, asn)].roas

SetDefault(data, asn) ==
    IF HasKey(data, asn) THEN data ELSE Append(data, [asn |-> asn, roas |-> << >>])

\* AppendRoa that overwrites the list: data[asn] = [roa]
AppendRoa_overwrite(data, asn, roa) ==
    [data EXCEPT ![KeyIndex(data, asn)].roas = <<roa>>]

AppendRoa(data, asn, roa) ==
    [data EXCEPT ![KeyIndex(data, asn)].roas = Append(@, roa)]

(***************************************************************************)
(* Text of an AS number: "AS15169" or "15169" (digits), or not a number.   *)
(***************************************************************************)
AsnText(pre, n) == [pre |-> pre, digits |-> TRUE, num |-> n]

\* int(s) raises ValueError unless s is a number
IsInt(s) == s.digits /\ s.pre = ""

IntOf(s) == s.num

StripAS(s) == IF s.pre = "AS" THEN [s EXCEPT !.pre = ""] ELSE s

guess_ta_name(fname) == IF fname.tal \in {"afrinic", "arin", "lacnic", "ripencc", "apnic"}
                        THEN fname.tal ELSE "unknown"

(***************************************************************************)
(* load_rpki                                                               *)
(* A loader's outcome is the tree it leaves and the exception that ended   *)
(* it ("" when it returned).                                               *)
(***************************************************************************)
Done(rtree) == [tree |-> rtree, err |-> ""]

Raised(rtree, e) == [tree |-> rtree, err |-> e]

\* a row of a RIPE archive roas.csv as a record of data['roas']
csv_row(row, ta) ==
    [uri |-> row.uri, asn |-> row.asn, prefix |-> row.prefix,
     maxLength |-> IF row.maxLength.blank THEN row.prefix.len ELSE row.maxLength.num,
     startTime |-> row.startTime, endTime |-> row.endTime, ta |-> ta]

Optional(rec, keys) == [k \in keys \cap DOMAIN rec |-> rec[k]]

roa_details(rec) ==
    [maxLength |-> rec.maxLength, ta |-> rec.ta]
      @@ (IF "startTime" \in DOMAIN rec THEN Optional(rec, {"startTime", "endTime"}) ELSE << >>)
      @@ Optional(rec, {"uri"})

rpki_asn(rec) == StripAS(rec.asn)

\* the node of prefix, created when the tree does not hold it
node_of(rtree, prefix) ==
    IF search_exact(rtree, prefix) = NoNode THEN add(rtree, prefix) ELSE rtree

RECURSIVE load_roas(_, _, _)
load_roas(rtree, recs, i) ==
    IF i > Len(recs) THEN Done(rtree)
    ELSE LET rec == recs[i]
         IN  IF ~IsInt(rpki_asn(rec)) THEN Raised(rtree, "ValueError")
             ELSE LET asn == IntOf(rpki_asn(rec))
                      n == Network(rec.prefix)
                      t1 == node_of(rtree, rec.prefix)
                      t2 == [t1 EXCEPT ![n] = SetDefault(@, asn)]
                  IN  IF {"maxLength", "ta"} \subseteq DOMAIN rec
                      THEN load_roas([t2 EXCEPT ![n] = AppendRoa(@, asn, roa_details(rec))],
                                     recs, i + 1)
                      ELSE Raised(t2, "KeyError")

rpki_data(file) ==
    IF file.format = "json" THEN file.roas
    ELSE [k \in 1..Len(file.roas) |-> csv_row(file.roas[k], guess_ta_name(file))]

RECURSIVE load_rpki_files(_, _, _)
load_rpki_files(rtree, files, f) ==
    IF f > Len(files) THEN Done(rtree)
    ELSE IF files[f].format \notin {"json", "csv"} THEN Done(rtree)
    ELSE LET r == load_roas(rtree, rpki_data(files[f]), 1)
         IN  IF r.err # "" THEN r ELSE load_rpki_files(r.tree, files, f + 1)

(***************************************************************************)
(* load_irr                                                                *)
(* A line of an IRR dump, stripped: a comment, a blank line, a field       *)
(* "name: value", or a line without ':'.  A field's text is its value and  *)
(* the lines appended to it.                                               *)
(***************************************************************************)
Text(v) == [val |-> v, more |-> << >>]

\* rec[field] += '\n' + line
Extend(rec, field, line) == [rec EXCEPT ![field].more = Append(@, line)]

SetField(rec, field, text) ==
    [k \in DOMAIN rec \cup {field} |-> IF k = field THEN text ELSE rec[k]]

GetField(rec, field, default) == IF field \in DOMAIN rec THEN rec[field] ELSE default

\* int(rec['origin'][2:].partition('#')[0]): the first two characters are dropped
origin_text(text) == [text.val EXCEPT !.pre = ""]

origin_is_int(text) == text.more = << >> /\ IsInt(origin_text(text))

irr_entry(rec) == [descr |-> GetField(rec, "descr", Text("")),
                   source |-> GetField(rec, "source", Text(""))]

IrrState(rtree, rec, field, e) == [tree |-> rtree, rec |-> rec, field |-> field, err |-> e]

\* the blank line that ends an object
irr_blank(st, line) ==
    IF "route" \in DOMAIN st.rec
    THEN IF "origin" \notin DOMAIN st.rec
         THEN [st EXCEPT !.rec = Extend(st.rec, st.field, "")]
         ELSE IF st.rec["route"].more # << >>
         THEN [st EXCEPT !.err = "ValueError"]
         ELSE IF ~origin_is_int(st.rec["origin"])
         THEN st
         ELSE LET route == st.rec["route"].val
                  asn == IntOf(origin_text(st.rec["origin"]))
                  n == Network(route)
                  t1 == node_of(st.tree, route)
                  t2 == [t1 EXCEPT ![n] = SetDefault(@, asn)]
              IN  IrrState([t2 EXCEPT ![n] = AppendRoa(@, asn, irr_entry(st.rec))],
                           << >>, "", "")
    ELSE [st EXCEPT !.rec = << >>, !.field = ""]

irr_field(st, line) ==
    LET field == IF line.name = "route6" THEN "route" ELSE line.name
    IN  [st EXCEPT !.rec = SetField(st.rec, field, Text(line.value)), !.field = field]

irr_continuation(st, line) ==
    IF st.field \in DOMAIN st.rec /\ st.field \in {"descr", "addr"}
    THEN [st EXCEPT !.rec = Extend(st.rec, st.field, line.text)]
    ELSE st

irr_line(st, line) ==
    CASE line.kind = "comment" -> st
      [] line.kind = "blank" -> irr_blank(st, line)
      [] line.kind = "field" -> irr_field(st, line)
      [] OTHER -> irr_continuation(st, line)

RECURSIVE load_irr_lines(_, _, _)
load_irr_lines(st, lines, i) ==
    IF i > Len(lines) \/ st.err # "" THEN st
    ELSE load_irr_lines(irr_line(st, lines[i]), lines, i + 1)

load_irr_file(rtree, lines) ==
    LET st == load_irr_lines(IrrState(rtree, << >>, "", ""), lines, 1)
    IN  [tree |-> st.tree, err |-> st.err]

RECURSIVE load_irr_files(_, _, _)
load_irr_files(rtree, files, f) ==
    IF f > Len(files) THEN Done(rtree)
    ELSE LET r == load_irr_file(rtree, files[f])
         IN  IF r.err # "" THEN r ELSE load_irr_files(r.tree, files, f + 1)

(***************************************************************************)
(* check: the status of one source (rpki or irr)                           *)
(* A status is the dict {'status', 'prefix'} and the entry whose           *)
(* attributes are copied into it.                                          *)
(***************************************************************************)
NoRoa == [none |-> TRUE]

Status(status, prefix, roa) == [status |-> status, prefix |-> prefix, roa |-> roa]

\* length_ok with > for >=
length_ok_strict(roa, rnode, prefix_in) ==
    \/ "maxLength" \in DOMAIN roa /\ roa.maxLength > prefix_in.len
    \/ prefix_in = rnode

\* the check of the prefix length
length_ok(roa, rnode, prefix_in) ==
    \/ "maxLength" \in DOMAIN roa /\ roa.maxLength >= prefix_in.len
    \/ prefix_in = rnode

RECURSIVE scan_roas(_, _, _, _, _)
scan_roas(entries, j, rnode, prefix_in, st) ==
    IF j > Len(entries) THEN st
    ELSE IF length_ok(entries[j], rnode, prefix_in)
         THEN Status("Valid", rnode, entries[j])
         ELSE scan_roas(entries, j + 1, rnode, prefix_in,
                        Status("Invalid,more-specific", rnode, entries[j]))

\* scan_nodes that stops at the first node with the AS as a key
RECURSIVE scan_nodes_first_keyed(_, _, _, _, _, _)
scan_nodes_first_keyed(rtree, rnodes, i, prefix_in, origin_asn, st) ==
    IF i > Len(rnodes) THEN st
    ELSE IF HasKey(rtree[rnodes[i]], origin_asn)
         THEN scan_roas(Get(rtree[rnodes[i]], origin_asn), 1, rnodes[i], prefix_in, st)
         ELSE scan_nodes_first_keyed(rtree, rnodes, i + 1, prefix_in, origin_asn, st)

\* scan_nodes without the break on Valid
RECURSIVE scan_nodes_no_break(_, _, _, _, _, _)
scan_nodes_no_break(rtree, rnodes, i, prefix_in, origin_asn, st) ==
    IF i > Len(rnodes) THEN st
    ELSE IF HasKey(rtree[rnodes[i]], origin_asn)
         THEN scan_nodes_no_break(rtree, rnodes, i + 1, prefix_in, origin_asn,
                                  scan_roas(Get(rtree[rnodes[i]], origin_asn), 1,
                                            rnodes[i], prefix_in, st))
         ELSE scan_nodes_no_break(rtree, rnodes, i + 1, prefix_in, origin_asn, st)

RECURSIVE scan_nodes(_, _, _, _, _, _)
scan_nodes(rtree, rnodes, i, prefix_in, origin_asn, st) ==
    IF i > Len(rnodes) THEN st
    ELSE IF HasKey(rtree[rnodes[i]], origin_asn)
         THEN LET st2 == scan_roas(Get(rtree[rnodes[i]], origin_asn), 1,
                                   rnodes[i], prefix_in, st)
              IN  IF st2.status = "Valid" THEN st2
                  ELSE scan_nodes(rtree, rnodes, i + 1, prefix_in, origin_asn, st2)
         ELSE scan_nodes(rtree, rnodes, i + 1, prefix_in, origin_asn, st)

\* the first roa of the most specific prefix; reading it raises on a node
\* without a key (StopIteration) or whose first key has no entry (IndexError)
first_roa_error(data) ==
    IF Len(data) = 0 THEN "StopIteration"
    ELSE IF Len(data[1].roas) = 0 THEN "IndexError" ELSE ""

\* default_status taken from the least specific node
default_status_last(rtree, rnodes) ==
    IF Len(rnodes) = 0 THEN Status("NotFound", NoNode, NoRoa)
    ELSE Status("Invalid", rnodes[Len(rnodes)], rtree[rnodes[Len(rnodes)]][1].roas[1])

\* report invalid with the first roa of the most specific prefix
default_status(rtree, rnodes) ==
    IF Len(rnodes) = 0 THEN Status("NotFound", NoNode, NoRoa)
    ELSE Status("Invalid", rnodes[1], rtree[rnodes[1]][1].roas[1])

\* the status of one source, when reading the first roa does not raise
check_source(rtree, prefix, origin_asn) ==
    LET rnodes == search_covering(rtree, prefix)
    IN  scan_nodes(rtree, rnodes, 1, prefix, origin_asn, default_status(rtree, rnodes))

(***************************************************************************)
(* portion: an Interval is a set of atomic closed intervals <<lo, hi>>.    *)
(* portion works over a continuous domain: two atomic intervals are merged *)
(* when they share a point, and [1,2] | [3,4] stays two atomic intervals.  *)
(***************************************************************************)
closed(lo, hi) == IF lo <= hi THEN {<<lo, hi>>} ELSE {}

Pts(I) == UNION {iv[1]..iv[2] : iv \in I}

\* the x whose segment [x, x+1] lies in the interval
Segs(I) == UNION {iv[1]..(iv[2] - 1) : iv \in I}

Atoms(P, E) == {iv \in P \X P :
                  /\ iv[1] <= iv[2]
                  /\ (iv[1] - 1) \notin E
                  /\ iv[2] \notin E
                  /\ \A x \in iv[1]..(iv[2] - 1) : x \in E}

\* I | J
Union(I, J) == Atoms(Pts(I \cup J), Segs(I \cup J))

\* I - J, over the integers
Minus(I, J) == LET P == Pts(I) \ Pts(J)
               IN  Atoms(P, {x \in Segs(I) : x \in P /\ x + 1 \in P})

\* portion.Interval(*interval_list)
IntervalOf(list) == Atoms(Pts(UNION {list[k] : k \in 1..Len(list)}),
                          Segs(UNION {list[k] : k \in 1..Len(list)}))

(***************************************************************************)
(* portion.IntervalDict: a function from the stored values to the Interval *)
(* of each.                                                                *)
(***************************************************************************)
IntervalDict == << >>

\* d[interval] = value
SetItem(d, interval, value) ==
    IF interval = {} THEN d
    ELSE LET others == {v \in DOMAIN d : v # value /\ Minus(d[v], interval) # {}}
         IN  [v \in others \cup {value} |->
                IF v = value
                THEN IF value \in DOMAIN d THEN Union(d[value], interval) ELSE interval
                ELSE Minus(d[v], interval)]

\* d.get(key, default)
GetItem(d, key, default) ==
    IF \E v \in DOMAIN d : key \in Pts(d[v])
    THEN CHOOSE v \in DOMAIN d : key \in Pts(d[v])
    ELSE default

(***************************************************************************)
(* load_delegated                                                          *)
(* A line of a delegated-stats file: a comment, a version or summary line  *)
(* (fewer than 8 fields), or a record registry|cc|type|start|value|date|   *)
(* status|...                                                              *)
(***************************************************************************)
BlankRec == [registry |-> "", cc |-> "", type |-> "", start |-> 0, value |-> 0,
             date |-> "", status |-> ""]

AsValue(rec) == [status |-> rec.status, registry |-> rec.registry]

\* the closed interval from the start of the run to the end of the last line read
run_interval(start_interval, previous_rec) ==
    closed(start_interval.start, previous_rec.start + previous_rec.value - 1)

\* intervals[key].append(interval): a defaultdict(list), in insertion order of its keys
AppendInterval(intervals, key, interval) ==
    IF \E k \in 1..Len(intervals) : intervals[k].key = key
    THEN [k \in 1..Len(intervals) |->
            IF intervals[k].key = key
            THEN [intervals[k] EXCEPT !.list = Append(@, interval)]
            ELSE intervals[k]]
    ELSE Append(intervals, [key |-> key, list |-> <<interval>>])

\* continues with the end of the previous line taken for its successor
continues_off_by_one(previous_rec, rec) ==
    /\ previous_rec.registry = rec.registry
    /\ previous_rec.status = rec.status
    /\ previous_rec.start + previous_rec.value - 1 = rec.start

\* the next line continues the interval being read
continues(previous_rec, rec) ==
    /\ previous_rec.registry = rec.registry
    /\ previous_rec.status = rec.status
    /\ previous_rec.start + previous_rec.value = rec.start

delegated_asn(st, rec) ==
    IF st.start_interval = BlankRec
    THEN [st EXCEPT !.start_interval = rec, !.previous_rec = rec]
    ELSE IF continues(st.previous_rec, rec)
    THEN [st EXCEPT !.previous_rec = rec]
    ELSE [st EXCEPT !.intervals = AppendInterval(@, AsValue(st.previous_rec),
                                      run_interval(st.start_interval, st.previous_rec)),
                    !.start_interval = rec,
                    !.previous_rec = rec]

RECURSIVE Pow2(_)
Pow2(k) == IF k = 0 THEN 1 ELSE 2 * Pow2(k - 1)

\* math.log2(value), rounded up
CeilLog2(value) == CHOOSE k \in 0..value : Pow2(k) >= value /\ (k = 0 \/ Pow2(k - 1) < value)

\* int(32 - math.log2(value)) for ipv4, int(value) for ipv6
prefix_len(rec) == IF rec.type = "ipv4" THEN AddrBits - CeilLog2(rec.value) ELSE rec.value

delegated_data(rec, prefix) ==
    [status |-> rec.status, prefix |-> prefix, date |-> rec.date,
     registry |-> rec.registry, country |-> rec.cc]

delegated_prefix(st, rec) ==
    LET s1 == IF st.previous_rec.type = "asn"
              THEN [st EXCEPT !.asn = SetItem(@, run_interval(st.start_interval, st.previous_rec),
                                              AsValue(st.previous_rec)),
                              !.start_interval = BlankRec,
                              !.previous_rec = BlankRec]
              ELSE st
        prefix == [addr |-> rec.start, len |-> prefix_len(rec)]
    IN  [s1 EXCEPT !.prefix = [n \in DOMAIN s1.prefix \cup {Network(prefix)} |->
                                  IF n = Network(prefix)
                                  THEN delegated_data(rec, prefix)
                                  ELSE s1.prefix[n]]]

\* rec['value'] = int(rec['value']) raises unless the field is a number
value_is_int(rec) == "nan" \notin DOMAIN rec

delegated_line(st, line) ==
    IF line.kind # "rec" THEN st
    ELSE IF ~value_is_int(line.rec) THEN [st EXCEPT !.err = "ValueError"]
    ELSE IF line.rec.type = "asn" THEN delegated_asn(st, line.rec)
    ELSE IF line.rec.type \in {"ipv4", "ipv6"} THEN delegated_prefix(st, line.rec)
    ELSE st

RECURSIVE delegated_lines(_, _, _)
delegated_lines(st, lines, i) ==
    IF i > Len(lines) \/ st.err # "" THEN st
    ELSE delegated_lines(delegated_line(st, lines[i]), lines, i + 1)

\* the fast way to populate the IntervalDict, after the lines of a file
RECURSIVE populate(_, _, _)
populate(d, intervals, k) ==
    IF k > Len(intervals) THEN d
    ELSE populate(SetItem(d, IntervalOf(intervals[k].list), intervals[k].key),
                  intervals, k + 1)

RECURSIVE load_delegated_files(_, _, _, _)
load_delegated_files(deleg, intervals, files, f) ==
    IF f > Len(files) THEN [prefix |-> deleg.prefix, asn |-> deleg.asn, err |-> ""]
    ELSE LET st == delegated_lines([intervals |-> intervals, start_interval |-> BlankRec,
                                    previous_rec |-> BlankRec, asn |-> deleg.asn,
                                    prefix |-> deleg.prefix, err |-> ""], files[f], 1)
         IN  IF st.err # "" THEN [prefix |-> st.prefix, asn |-> st.asn, err |-> st.err]
             ELSE load_delegated_files([prefix |-> st.prefix,
                                        asn |-> populate(st.asn, st.intervals, 1)],
                                       st.intervals, files, f + 1)

(***************************************************************************)
(* check and lookup                                                        *)
(***************************************************************************)
NotFound == [status |-> "NotFound"]

delegated_status(deleg, prefix, origin_asn) ==
    [prefix |-> IF search_best(deleg.prefix, prefix) # NoNode
                THEN deleg.prefix[search_best(deleg.prefix, prefix)]
                ELSE NotFound,
     asn |-> GetItem(deleg.asn, origin_asn, NotFound)]

\* the exception that ends check() in the loop over the sources, "" when none
check_error(trees, prefix) ==
    LET err(name) == IF Len(search_covering(trees[name], prefix)) = 0 THEN ""
                     ELSE first_roa_error(trees[name][search_covering(trees[name], prefix)[1]])
    IN  IF err("irr") # "" THEN err("irr") ELSE err("rpki")

\* A prefix string that is not "address/length" is a record with a field bad:
\* "8.8.8.8" (no length), "8.8.8.0/x" (the length is no number), "x/24" (the
\* address does not parse).
IsMalformed(prefix) == "bad" \in DOMAIN prefix

\* int(prefix_in.partition('/')[2])
prefixlen_error(prefix) ==
    IF IsMalformed(prefix) /\ prefix.bad \in {"nolen", "badlen"} THEN "ValueError" ELSE ""

\* radix reads an address without a length as the host prefix, and raises on
\* a length or an address it cannot parse
radix_error(prefix) ==
    IF IsMalformed(prefix) /\ prefix.bad \in {"badlen", "badaddr"} THEN "ValueError" ELSE ""

radix_arg(prefix) ==
    IF IsMalformed(prefix) THEN [addr |-> prefix.addr, len |-> AddrBits] ELSE prefix

\* query_of echoing the prefix of the node instead of the string
query_of_network(prefix, origin_asn) == [prefix |-> Network(prefix), asn |-> origin_asn]

\* include the query in the results
query_of(prefix, origin_asn) == [prefix |-> prefix, asn |-> origin_asn]

check(trees, deleg, prefix, origin_asn) ==
    IF prefixlen_error(prefix) # "" \/ radix_error(prefix) # ""
    THEN [op |-> "check", raised |-> "ValueError",
          query |-> [prefix |-> prefix, asn |-> origin_asn]]
    ELSE IF check_error(trees, prefix) # ""
    THEN [op |-> "check", raised |-> check_error(trees, prefix),
          query |-> [prefix |-> prefix, asn |-> origin_asn]]
    ELSE [op |-> "check", raised |-> "",
          query |-> query_of(prefix, origin_asn),
          irr |-> check_source(trees.irr, prefix, origin_asn),
          rpki |-> check_source(trees.rpki, prefix, origin_asn),
          delegated |-> delegated_status(deleg, prefix, origin_asn)]

\* res[name][rnode.prefix] = rnode.data, for the sources with a covering node
lookup_res(trees, deleg, prefix) ==
    LET cov(name) == search_covering(trees[name], prefix)
        found == {name \in {"irr", "rpki"} : Len(cov(name)) > 0}
        best == search_best(deleg.prefix, prefix)
    IN  [name \in found |-> [k \in {cov(name)[i] : i \in 1..Len(cov(name))} |-> trees[name][k]]]
          @@ (IF best # NoNode THEN [delegated |-> deleg.prefix[best]] ELSE << >>)

lookup(trees, deleg, prefix) ==
    IF radix_error(prefix) # ""
    THEN [op |-> "lookup", raised |-> "ValueError", query |-> [prefix |-> prefix]]
    ELSE [op |-> "lookup", raised |-> "", query |-> [prefix |-> prefix],
          res |-> lookup_res(trees, deleg, radix_arg(prefix))]

(***************************************************************************)
(* The files of the cache directories                                      *)
(***************************************************************************)
SeqsUpTo(S, n) == UNION {[1..k -> S] : k \in 0..n}

ZeroAddr == [i \in 1..AddrBits |-> 0]

\* the prefixes the route files hold: one of each length, each inside the next
RoutePrefixes == {[addr |-> ZeroAddr, len |-> l] : l \in 0..AddrBits}

RoaRec(n, a, m) == [asn |-> AsnText("AS", a), prefix |-> n, maxLength |-> m, ta |-> "ripencc"]

\* the ROAs of an export.json: maxLength is the length of the prefix or the width
RpkiRecs == {RoaRec(n, a, n.len) : n \in RoutePrefixes, a \in ASNs} \cup
            {RoaRec(n, a, AddrBits) : n \in RoutePrefixes, a \in ASNs}

JsonFile(recs) == [format |-> "json", tal |-> "", roas |-> recs]

Field(name, value) == [kind |-> "field", name |-> name, value |-> value]

BlankLine == [kind |-> "blank"]

\* a route object: route, origin, source, and the blank line that ends it
RouteObject(n, a) == <<Field("route", n), Field("origin", AsnText("AS", a)),
                       Field("source", "RADB"), BlankLine>>

IrrObjects == {RouteObject(n, a) : n \in RoutePrefixes, a \in ASNs}

RECURSIVE Flatten(_)
Flatten(seqs) == IF seqs = << >> THEN << >> ELSE Head(seqs) \o Flatten(Tail(seqs))

StatsRec(type, registry, start, value, status) ==
    [kind |-> "rec",
     rec |-> [registry |-> registry, cc |-> "ZZ", type |-> type, start |-> start,
              value |-> value, date |-> "20200101", status |-> status]]

\* a short delegated-stats file: one AS range, then one address block
SmallStats == <<StatsRec("asn", "apnic", 1, 1, "allocated"),
                StatsRec("ipv4", "apnic", ZeroAddr, 2, "allocated")>>

Keys == {<<"apnic", "allocated">>, <<"apnic", "reserved">>, <<"arin", "allocated">>}

\* asn lines of one or two AS numbers
AsnLines == {StatsRec("asn", t[1][1], t[2], t[3], t[1][2]) :
               t \in {u \in Keys \X (1..MaxAS) \X (1..2) : u[2] + u[3] - 1 <= MaxAS}}

Ipv4Line == StatsRec("ipv4", "apnic", ZeroAddr, 2, "allocated")

IsAsn(line) == line.kind = "rec" /\ line.rec.type = "asn"

Range(line) == line.rec.start..(line.rec.start + line.rec.value - 1)

\* a registry delegates an AS number once: the ranges of the asn lines are disjoint
DisjointRanges(file) ==
    \A i, j \in 1..Len(file) :
        (i < j /\ IsAsn(file[i]) /\ IsAsn(file[j])) => Range(file[i]) \cap Range(file[j]) = {}

StatsFiles == {f \in SeqsUpTo(AsnLines \cup {Ipv4Line}, MaxLines) : DisjointRanges(f)}

\* the position of a load_* call that is running, Idle between the calls
Idle == [op |-> "idle"]

Fresh ==
    /\ roas = [irr |-> Radix, rpki |-> Radix]
    /\ delegated = [prefix |-> Radix, asn |-> IntervalDict]
    /\ loads = [rpki |-> 0, irr |-> 0, delegated |-> 0]
    /\ result = [op |-> "init", raised |-> ""]
    /\ call = [op |-> "init"]
    /\ loader = Idle

Init ==
    /\ \E recs \in SeqsUpTo(RpkiRecs, MaxRecs), objs \in SeqsUpTo(IrrObjects, MaxRecs) :
          /\ Len(recs) + Len(objs) <= MaxRecs
          /\ disk = [rpki |-> <<JsonFile(recs)>>, irr |-> <<Flatten(objs)>>,
                     delegated |-> <<SmallStats>>]
    /\ Fresh

(***************************************************************************)
(* The operations of ROV.  result is what the last call returned.  A query *)
(* leaves every index as it was, so its answer does not depend on the      *)
(* queries before it: each query is taken from a state a load (or the      *)
(* construction) left.  call is the last call and its arguments.           *)
(***************************************************************************)
Loaded(name, err) == [op |-> name, raised |-> err]

Quiet == result.op \notin {"check", "lookup"}

\* the load_* calls made so far
Calls == loads.rpki + loads.irr + loads.delegated

do_load_rpki ==
    /\ Calls < MaxLoads
    /\ LET r == load_rpki_files(roas.rpki, disk.rpki, 1)
       IN  /\ roas' = [roas EXCEPT !.rpki = r.tree]
           /\ result' = Loaded("load_rpki", r.err)
    /\ loads' = [loads EXCEPT !.rpki = @ + 1]
    /\ call' = [op |-> "load_rpki"]
    /\ UNCHANGED <<disk, delegated, loader>>

do_load_irr ==
    /\ Calls < MaxLoads
    /\ LET r == load_irr_files(roas.irr, disk.irr, 1)
       IN  /\ roas' = [roas EXCEPT !.irr = r.tree]
           /\ result' = Loaded("load_irr", r.err)
    /\ loads' = [loads EXCEPT !.irr = @ + 1]
    /\ call' = [op |-> "load_irr"]
    /\ UNCHANGED <<disk, delegated, loader>>

do_load_delegated ==
    /\ Calls < MaxLoads
    /\ LET r == load_delegated_files(delegated, << >>, disk.delegated, 1)
       IN  /\ delegated' = [prefix |-> r.prefix, asn |-> r.asn]
           /\ result' = Loaded("load_delegated", r.err)
    /\ loads' = [loads EXCEPT !.delegated = @ + 1]
    /\ call' = [op |-> "load_delegated"]
    /\ UNCHANGED <<disk, roas, loader>>

\* do_check looking the prefix up with add, which creates the node it misses
do_check_adding(prefixes, asns) ==
    /\ Quiet
    /\ \E prefix \in prefixes, origin_asn \in asns :
          /\ result' = check(roas, delegated, prefix, origin_asn)
          /\ call' = [op |-> "check", prefix |-> prefix, asn |-> origin_asn]
          /\ roas' = [roas EXCEPT !.rpki = add(@, prefix)]
    /\ UNCHANGED <<disk, delegated, loads, loader>>

do_check(prefixes, asns) ==
    /\ Quiet
    /\ \E prefix \in prefixes, origin_asn \in asns :
          /\ result' = check(roas, delegated, prefix, origin_asn)
          /\ call' = [op |-> "check", prefix |-> prefix, asn |-> origin_asn]
    /\ UNCHANGED <<disk, roas, delegated, loads, loader>>

do_lookup(prefixes) ==
    /\ Quiet
    /\ \E prefix \in prefixes :
          /\ result' = lookup(roas, delegated, prefix)
          /\ call' = [op |-> "lookup", prefix |-> prefix]
    /\ UNCHANGED <<disk, roas, delegated, loads, loader>>

Next ==
    \/ do_load_rpki
    \/ do_load_irr
    \/ do_load_delegated
    \/ do_check(PrefixStr, ASNs)
    \/ do_lookup(PrefixStr)

Spec == Init /\ [][Next]_vars

\* the engine over a delegated-stats file alone
InitDelegated ==
    /\ \E f \in StatsFiles : disk = [rpki |-> << >>, irr |-> << >>, delegated |-> <<f>>]
    /\ Fresh

NextDelegated ==
    \/ do_load_delegated
    \/ do_check({[addr |-> ZeroAddr, len |-> AddrBits]}, 0..(MaxAS + 1))

SpecDelegated == InitDelegated /\ [][NextDelegated]_vars

(***************************************************************************)
(* The engine over the ipv4 / ipv6 lines of a delegated-stats file.        *)
(***************************************************************************)
\* lines of the file
MaxPrefixLines == 2

PrefixKeys == {<<"apnic", "allocated">>, <<"arin", "reserved">>}

\* ipv4 lines of every start and size, ipv6 lines of every length
PrefixLines == {StatsRec("ipv4", k[1], a, v, k[2]) :
                  k \in PrefixKeys, a \in Addrs, v \in 1..Pow2(AddrBits)} \cup
               {StatsRec("ipv6", "apnic", ZeroAddr, l, "allocated") : l \in 0..AddrBits}

InitPrefixes ==
    /\ \E f \in SeqsUpTo(PrefixLines, MaxPrefixLines) :
          disk = [rpki |-> << >>, irr |-> << >>, delegated |-> <<f>>]
    /\ Fresh

NextPrefixes ==
    \/ do_load_delegated
    \/ do_check(PrefixStr, {1})

SpecPrefixes == InitPrefixes /\ [][NextPrefixes]_vars

(***************************************************************************)
(* The claims.  They are stated over the value check() or lookup()         *)
(* returned (result) and the indices it was computed from.                 *)
(***************************************************************************)
Sources == {"rpki", "irr"}

Checked == result.op = "check" /\ result.raised = ""

\* the nodes of a source that cover the prefix string p
CoveringNodes(s, p) == {n \in DOMAIN roas[s] : Covers(n, p)}

MostSpecific(N) == CHOOSE n \in N : \A m \in N : m.len <= n.len

LeastSpecific(N) == CHOOSE n \in N : \A m \in N : m.len >= n.len

KeyedBy(s, n, a) == \E i \in 1..Len(roas[s][n]) : roas[s][n][i].asn = a

EntriesOf(s, n, a) == roas[s][n][CHOOSE i \in 1..Len(roas[s][n]) : roas[s][n][i].asn = a].roas

\* the test of an entry e of node n against the prefix string p
Satisfies(e, n, p) == ("maxLength" \in DOMAIN e /\ e.maxLength >= p.len) \/ p = n

Qualifies(s, n, a, p) ==
    KeyedBy(s, n, a) /\ \E j \in 1..Len(EntriesOf(s, n, a)) : Satisfies(EntriesOf(s, n, a)[j], n, p)

\* the most specific covering node is keyed by a and one of its entries passes the test
ValidCase(s, p, a) ==
    /\ CoveringNodes(s, p) # {}
    /\ Qualifies(s, MostSpecific(CoveringNodes(s, p)), a, p)

\* the most specific covering node is keyed by a, with entries none of which
\* passes the test
MoreSpecificCase(s, p, a) ==
    /\ CoveringNodes(s, p) # {}
    /\ KeyedBy(s, MostSpecific(CoveringNodes(s, p)), a)
    /\ EntriesOf(s, MostSpecific(CoveringNodes(s, p)), a) # << >>
    /\ ~Qualifies(s, MostSpecific(CoveringNodes(s, p)), a, p)

\* C1: when the most specific node covering P is keyed by A and one of its
\* A-entries has maxLength >= len(P), or P is the node's prefix, check(P, A)
\* reports the source Valid.
C1_Valid ==
    Checked => \A s \in Sources :
        ValidCase(s, result.query.prefix, result.query.asn) => result[s].status = "Valid"

C1_Witness ==
    /\ Checked
    /\ ValidCase("rpki", result.query.prefix, result.query.asn)
    /\ ValidCase("irr", result.query.prefix, result.query.asn)

\* C2 as claimed: when the most specific covering node is keyed by A and none
\* of its A-entries passes the test, the status is Invalid,more-specific
\* whatever the less specific covering nodes hold.
C2_Original ==
    Checked => \A s \in Sources :
        MoreSpecificCase(s, result.query.prefix, result.query.asn)
            => result[s].status = "Invalid,more-specific"

\* C2 as amended: in that case the status is Invalid,more-specific unless a
\* less specific covering node has an A-entry that passes the test, and then
\* it is Valid.
C2_MoreSpecific ==
    Checked => \A s \in Sources :
        MoreSpecificCase(s, result.query.prefix, result.query.asn)
            => result[s].status =
                 IF \E n \in CoveringNodes(s, result.query.prefix) :
                        Qualifies(s, n, result.query.asn, result.query.prefix)
                 THEN "Valid" ELSE "Invalid,more-specific"

C2_Witness ==
    /\ Checked
    /\ MoreSpecificCase("rpki", result.query.prefix, result.query.asn)
    /\ Cardinality(CoveringNodes("rpki", result.query.prefix)) = 2
    /\ result.rpki.status = "Invalid,more-specific"

\* C3: when some node covers P and no covering node is keyed by A, the status
\* is Invalid and the prefix reported is the most specific covering node's.
C3_Invalid ==
    Checked => \A s \in Sources :
        LET N == CoveringNodes(s, result.query.prefix)
        IN  (N # {} /\ \A n \in N : ~KeyedBy(s, n, result.query.asn))
                => /\ result[s].status = "Invalid"
                   /\ result[s].prefix = MostSpecific(N)

C3_Witness ==
    /\ Checked
    /\ Cardinality(CoveringNodes("rpki", result.query.prefix)) = 2
    /\ \A n \in CoveringNodes("rpki", result.query.prefix) : ~KeyedBy("rpki", n, result.query.asn)
    /\ result.rpki.status = "Invalid"

\* C4: when no node of a source covers P, the source's status is NotFound,
\* whatever the other source and the delegated indices hold.
C4_NotFound ==
    Checked => \A s \in Sources :
        CoveringNodes(s, result.query.prefix) = {} => result[s].status = "NotFound"

C4_Witness ==
    /\ Checked
    /\ DOMAIN roas.rpki # {}
    /\ CoveringNodes("rpki", result.query.prefix) = {}
    /\ result.rpki.status = "NotFound"
    /\ result.irr.status # "NotFound"
    /\ result.delegated.prefix.status # "NotFound"

\* the first entry of the list that passes the test
FirstSatisfying(list, n, p) ==
    list[CHOOSE j \in 1..Len(list) :
            /\ Satisfies(list[j], n, p)
            /\ \A k \in 1..(j - 1) : ~Satisfies(list[k], n, p)]

\* C5: a Valid status reports the most specific covering node that has an
\* A-entry passing the test, and the first such entry of that node.
C5_ValidReport ==
    Checked => \A s \in Sources :
        result[s].status = "Valid" =>
            LET Q == {n \in CoveringNodes(s, result.query.prefix) :
                        Qualifies(s, n, result.query.asn, result.query.prefix)}
            IN  /\ Q # {}
                /\ result[s].prefix = MostSpecific(Q)
                /\ result[s].roa = FirstSatisfying(EntriesOf(s, MostSpecific(Q), result.query.asn),
                                                   MostSpecific(Q), result.query.prefix)

C5_Witness ==
    /\ Checked
    /\ result.rpki.status = "Valid"
    /\ Cardinality({n \in CoveringNodes("rpki", result.query.prefix) :
                      Qualifies("rpki", n, result.query.asn, result.query.prefix)}) = 2

Looked == result.op = "lookup" /\ result.raised = ""

\* what the loaders have read: the ROAs of the RPKI files and the route
\* objects of the IRR files, once the source was loaded
RoasRead == IF loads.rpki = 0 THEN {}
            ELSE UNION {{disk.rpki[f].roas[k] : k \in 1..Len(disk.rpki[f].roas)} :
                          f \in 1..Len(disk.rpki)}

ObjectsIn(file) == {[route |-> file[i].value, origin |-> file[i + 1].value,
                     source |-> file[i + 2].value] :
                      i \in {k \in 1..Len(file) : file[k].kind = "field" /\ file[k].name = "route"}}

ObjectsRead == IF loads.irr = 0 THEN {}
               ELSE UNION {ObjectsIn(disk.irr[f]) : f \in 1..Len(disk.irr)}

\* res[s][p][a] holds the entry e
Holds(res, s, p, a, e) ==
    /\ s \in DOMAIN res
    /\ p \in DOMAIN res[s]
    /\ \E i \in 1..Len(res[s][p]) :
          res[s][p][i].asn = a /\ \E j \in 1..Len(res[s][p][i].roas) : res[s][p][i].roas[j] = e

\* some list of res[s] holds the entry e
HoldsAnywhere(res, s, e) ==
    /\ s \in DOMAIN res
    /\ \E p \in DOMAIN res[s] : \E i \in 1..Len(res[s][p]) :
          \E j \in 1..Len(res[s][p][i].roas) : res[s][p][i].roas[j] = e

\* C6: every entry a loader appended for (prefix, asn) is in
\* lookup(prefix)[source][prefix][asn] for the source it was loaded into, and
\* in no list of the other source.
C6_RoundTrip ==
    Looked =>
        /\ \A rec \in RoasRead :
              rec.prefix = result.query.prefix =>
                  LET e == [maxLength |-> rec.maxLength, ta |-> rec.ta]
                  IN  /\ Holds(result.res, "rpki", rec.prefix, rec.asn.num, e)
                      /\ ~HoldsAnywhere(result.res, "irr", e)
        /\ \A obj \in ObjectsRead :
              obj.route = result.query.prefix =>
                  LET e == [descr |-> Text(""), source |-> Text(obj.source)]
                  IN  /\ Holds(result.res, "irr", obj.route, obj.origin.num, e)
                      /\ ~HoldsAnywhere(result.res, "rpki", e)

C6_Witness ==
    /\ Looked
    /\ \E rec \in RoasRead : rec.prefix = result.query.prefix
    /\ \E obj \in ObjectsRead : obj.route = result.query.prefix

\* C7 as claimed: a load_* call on an engine that has already loaded the
\* same files leaves the index it fills as it was.
C7_Reload ==
    [][/\ \A s \in Sources : (loads[s] >= 1 /\ loads'[s] = loads[s] + 1) => roas'[s] = roas[s]
       /\ (loads.delegated >= 1 /\ loads'.delegated = loads.delegated + 1)
             => delegated' = delegated]_vars

(***************************************************************************)
(* The claims about the AS intervals, over one delegated-stats file.       *)
(***************************************************************************)
StatsFile == disk.delegated[1]

AsnAt == {i \in 1..Len(StatsFile) : IsAsn(StatsFile[i])}

LineInterval(i) == <<StatsFile[i].rec.start, StatsFile[i].rec.start + StatsFile[i].rec.value - 1>>

LineValue(i) == [status |-> StatsFile[i].rec.status, registry |-> StatsFile[i].rec.registry]

\* no two intervals stored for one value overlap or are adjacent
NoneAdjacent ==
    \A v \in DOMAIN delegated.asn : \A x, y \in delegated.asn[v] :
        x # y => (x[2] < y[1] \/ y[2] < x[1]) /\ x[2] + 1 # y[1]

DelegatedLoaded == loads.delegated >= 1 /\ Len(disk.delegated) = 1

\* C8 as claimed: after load_delegated over any sequence of lines, the
\* intervals stored for one (registry, status) are pairwise disjoint and no
\* two of them are adjacent.
C8_Original == DelegatedLoaded => NoneAdjacent

\* the asn lines are in ascending order of start, with no other line between them
OneAscendingBlock ==
    \A i, j \in AsnAt : i < j =>
        /\ StatsFile[i].rec.start < StatsFile[j].rec.start
        /\ \A k \in i..j : k \in AsnAt

\* C8 as amended: after load_delegated over one file whose asn lines have
\* disjoint ranges, are in ascending order of start and form one block, the
\* intervals stored for one (registry, status) are pairwise disjoint and no
\* two of them are adjacent.
C8_Maximal == (DelegatedLoaded /\ OneAscendingBlock) => NoneAdjacent

\* two lines were coalesced into one stored interval
C8_Witness ==
    /\ DelegatedLoaded
    /\ OneAscendingBlock
    /\ \E i, j \in AsnAt :
          /\ j = i + 1
          /\ LineValue(i) = LineValue(j)
          /\ LineValue(i) \in DOMAIN delegated.asn
          /\ <<LineInterval(i)[1], LineInterval(j)[2]>> \in delegated.asn[LineValue(i)]

\* no two asn lines of one (registry, status) have adjacent ranges
Coalesced ==
    \A i, j \in AsnAt : (i # j /\ LineValue(i) = LineValue(j)) => LineInterval(i)[2] + 1 # LineInterval(j)[1]

\* C9 as claimed: lines that describe a coalesced interval set, one line per
\* interval, yield exactly these intervals with their values.
C9_Idempotent ==
    (DelegatedLoaded /\ Coalesced) =>
        /\ \A i \in AsnAt : /\ LineValue(i) \in DOMAIN delegated.asn
                            /\ LineInterval(i) \in delegated.asn[LineValue(i)]
        /\ \A v \in DOMAIN delegated.asn : \A x \in delegated.asn[v] :
              \E i \in AsnAt : LineValue(i) = v /\ LineInterval(i) = x

\* C10 as claimed: check(P, A).delegated.asn is the (status, registry) of the
\* asn line whose range holds A, and NotFound when no line's range holds A.
C10_AsnStatus ==
    (DelegatedLoaded /\ Checked) =>
        result.delegated.asn =
            IF \E i \in AsnAt : result.query.asn \in Range(StatsFile[i])
            THEN LineValue(CHOOSE i \in AsnAt : result.query.asn \in Range(StatsFile[i]))
            ELSE [status |-> "NotFound"]

(***************************************************************************)
(* The engine over an RPKI directory of several files, of any format, with *)
(* records that do not parse.                                              *)
(***************************************************************************)
\* files of the RPKI directory
MaxFiles == 2

\* an AS number that is no number: "ASx"
BadAsn == [pre |-> "AS", digits |-> FALSE, num |-> 0]

ShortPrefixes == {n \in RoutePrefixes : n.len <= 1}

\* a ROA without its maxLength
NoMaxLength(n, a) == [asn |-> AsnText("AS", a), prefix |-> n, ta |-> "ripencc"]

\* the records of an export.json: "AS1", the number 2, "ASx", no maxLength
JsonRecs == {RoaRec(n, 1, n.len) : n \in ShortPrefixes} \cup
            {[RoaRec(n, 2, n.len) EXCEPT !.asn = AsnText("", 2)] : n \in ShortPrefixes} \cup
            {[RoaRec(n, 1, n.len) EXCEPT !.asn = BadAsn] : n \in ShortPrefixes} \cup
            {NoMaxLength(n, 1) : n \in ShortPrefixes}

\* a row of roas.csv: URI,ASN,IP Prefix,Max Length,Not Before,Not After
CsvRow(n, m) == [uri |-> "rsync://roa", asn |-> AsnText("AS", 1), prefix |-> n,
                 maxLength |-> m, startTime |-> "t0", endTime |-> "t1"]

CsvRows == {CsvRow(n, [blank |-> TRUE, num |-> 0]) : n \in ShortPrefixes} \cup
           {CsvRow(n, [blank |-> FALSE, num |-> AddrBits]) : n \in ShortPrefixes}

CsvFile(rows) == [format |-> "csv", tal |-> "ripencc", roas |-> rows]

\* a file that is neither .json nor .csv
OtherFile == [format |-> "txt", tal |-> "", roas |-> << >>]

RpkiFiles == {JsonFile(recs) : recs \in SeqsUpTo(JsonRecs, MaxRecs)} \cup
             {CsvFile(rows) : rows \in SeqsUpTo(CsvRows, MaxRecs)} \cup {OtherFile}

RECURSIVE RecsIn(_)
RecsIn(files) == IF files = << >> THEN 0 ELSE Len(Head(files).roas) + RecsIn(Tail(files))

RpkiDirs == {d \in SeqsUpTo(RpkiFiles, MaxFiles) : RecsIn(d) <= MaxRecs}

\* a delegated-stats line whose value field is no number
NanLine == [kind |-> "rec",
            rec |-> [registry |-> "apnic", cc |-> "ZZ", type |-> "ipv4", start |-> ZeroAddr,
                     nan |-> TRUE, date |-> "20200101", status |-> "allocated"]]

\* a delegated-stats file with such a line before an address block
NanStats == <<NanLine, Ipv4Line>>

InitRpkiFiles ==
    /\ \E d \in RpkiDirs, s \in {<< >>, <<NanStats>>} :
          disk = [rpki |-> d, irr |-> << >>, delegated |-> s]
    /\ Fresh

NextRpkiFiles ==
    \/ do_load_rpki
    \/ do_load_delegated
    \/ do_check(PrefixStr, ASNs)
    \/ do_lookup(PrefixStr)

SpecRpkiFiles == InitRpkiFiles /\ [][NextRpkiFiles]_vars

\* C12 as claimed: in every index state a load leaves, check and lookup of
\* a well-formed prefix return and never raise.
C12_NeverRaises == result.op \in {"check", "lookup"} => result.raised = ""

\* the records the files of known format hold, as load_rpki reads them
KnownFormat(file) == file.format \in {"json", "csv"}

RecsOf(file) == IF KnownFormat(file)
                THEN {rpki_data(file)[k] : k \in 1..Len(file.roas)} ELSE {}

RecsOnDisk == UNION {RecsOf(disk.rpki[f]) : f \in 1..Len(disk.rpki)}

WellFormed(rec) == IsInt(StripAS(rec.asn)) /\ {"maxLength", "ta"} \subseteq DOMAIN rec

\* the rpki tree holds the entry of the record
Stored(rec) ==
    /\ Network(rec.prefix) \in DOMAIN roas.rpki
    /\ \E i \in 1..Len(roas.rpki[Network(rec.prefix)]) :
          /\ roas.rpki[Network(rec.prefix)][i].asn = rec.asn.num
          /\ \E j \in 1..Len(roas.rpki[Network(rec.prefix)][i].roas) :
                roas.rpki[Network(rec.prefix)][i].roas[j] = roa_details(rec)

\* C13 as claimed: a record that does not parse is skipped and does not end
\* the load: after load_rpki over files of known format every well-formed
\* record of every file is loaded, and the load has not raised.
C13_SkipMalformed ==
    /\ (loads.rpki >= 1 /\ \A f \in 1..Len(disk.rpki) : KnownFormat(disk.rpki[f])) =>
          /\ \A rec \in RecsOnDisk : WellFormed(rec) => Stored(rec)
          /\ result.op = "load_rpki" => result.raised = ""
    /\ (loads.delegated >= 1 /\ disk.delegated # << >>) =>
          /\ DOMAIN delegated.prefix # {}
          /\ result.op = "load_delegated" => result.raised = ""

\* C14 as claimed: a file that is neither .json nor .csv is the only file
\* skipped: after load_rpki over well-formed records, the records of every
\* file of known format are loaded, whether listed before or after it.
C14_UnknownFormat ==
    (loads.rpki >= 1 /\ \A rec \in RecsOnDisk : WellFormed(rec)) =>
        \A rec \in RecsOnDisk : Stored(rec)

\* C17: check and lookup are pure reads: the rpki and irr trees, the
\* delegated prefix tree and the AS intervals are after the call what they
\* were before it, whether it returns or raises.
C17_PureReads ==
    [][(call' # call /\ call'.op \in {"check", "lookup"}) =>
          (roas' = roas /\ delegated' = delegated)]_vars

C17_Witness ==
    /\ result.op = "check"
    /\ result.raised # ""
    /\ DOMAIN roas.rpki # {}

(***************************************************************************)
(* The engine over an IRR dump whose route objects may lack the origin or  *)
(* the descr, or carry an origin that is not "AS" and digits.              *)
(***************************************************************************)
\* route objects of the dump
MaxObjs == 2

Opt(present, line) == IF present THEN <<line>> ELSE << >>

\* the origins: "AS1", "XX2", "ASx"
Origins == {AsnText("AS", 1), AsnText("XX", 2), BadAsn}

\* route, descr (or none), origin (or none), source, and the blank line
ObjectLines(n, d, o, origin) ==
    <<Field("route", n)>> \o Opt(d, Field("descr", "d1")) \o Opt(o, Field("origin", origin))
      \o <<Field("source", "RADB"), BlankLine>>

DumpObjects == {ObjectLines(n, d, TRUE, origin) :
                  n \in ShortPrefixes, d \in BOOLEAN, origin \in Origins} \cup
               {ObjectLines(n, d, FALSE, BadAsn) : n \in ShortPrefixes, d \in BOOLEAN}

InitIrr ==
    /\ \E objs \in SeqsUpTo(DumpObjects, MaxObjs) :
          disk = [rpki |-> << >>, irr |-> <<Flatten(objs)>>, delegated |-> << >>]
    /\ Fresh

NextIrr ==
    \/ do_load_irr
    \/ do_lookup(RoutePrefixes)

SpecIrr == InitIrr /\ [][NextIrr]_vars

Dump == disk.irr[1]

\* the blank lines of the dump: each ends the object written before it
Blanks == {i \in 1..Len(Dump) : Dump[i].kind = "blank"}

ObjectStart(b) == IF \E i \in Blanks : i < b
                  THEN (CHOOSE i \in Blanks : i < b /\ \A j \in Blanks : j < b => j <= i) + 1
                  ELSE 1

HasOwn(b, name) == \E i \in ObjectStart(b)..(b - 1) : Dump[i].kind = "field" /\ Dump[i].name = name

Own(b, name) == Dump[CHOOSE i \in ObjectStart(b)..(b - 1) :
                        Dump[i].kind = "field" /\ Dump[i].name = name].value

\* the entry made of the object's own descr and source
OwnEntry(b) == [descr |-> IF HasOwn(b, "descr") THEN Text(Own(b, "descr")) ELSE Text(""),
                source |-> IF HasOwn(b, "source") THEN Text(Own(b, "source")) ELSE Text("")]

\* the object has a route and an origin made of "AS" and digits
Committable(b) ==
    /\ HasOwn(b, "route")
    /\ HasOwn(b, "origin")
    /\ Own(b, "origin").pre = "AS"
    /\ Own(b, "origin").digits

\* the entries of the irr tree, each with its node and its AS number
IrrCommitted ==
    UNION {UNION {{[node |-> n, asn |-> roas.irr[n][i].asn, entry |-> roas.irr[n][i].roas[j]] :
                     j \in 1..Len(roas.irr[n][i].roas)} :
                  i \in 1..Len(roas.irr[n])} :
           n \in DOMAIN roas.irr}

\* C15 as claimed: a route object is committed only with a route and an
\* origin of the form AS<digits>, and every such object is committed with
\* its own route, origin, descr and source, whatever object came before it.
C15_Commit ==
    loads.irr >= 1 =>
        /\ \A c \in IrrCommitted : \E b \in Blanks :
              /\ Committable(b)
              /\ c.node = Network(Own(b, "route"))
              /\ c.asn = Own(b, "origin").num
              /\ c.entry = OwnEntry(b)
        /\ \A b \in Blanks : Committable(b) =>
              [node |-> Network(Own(b, "route")), asn |-> Own(b, "origin").num,
               entry |-> OwnEntry(b)] \in IrrCommitted

\* C20 as claimed: every blank line ends the open record: the route, the
\* origin, the descr and the source of a committed entry are those of one
\* object of the dump, and none was read before the blank line that
\* precedes that object.
C20_BlankTerminates ==
    loads.irr >= 1 =>
        \A c \in IrrCommitted : \E b \in Blanks :
            /\ HasOwn(b, "route") /\ c.node = Network(Own(b, "route"))
            /\ HasOwn(b, "origin") /\ c.asn = Own(b, "origin").num
            /\ c.entry = OwnEntry(b)

(***************************************************************************)
(* load_rpki running while another thread queries the engine.  The loader  *)
(* writes into self.roas['rpki'] record by record: loader holds the record *)
(* it is at and the tree it started from.                                  *)
(***************************************************************************)
Loading == [op |-> "loading", raised |-> ""]

\* the records of the file being read
LoaderRecs == rpki_data(disk.rpki[1])

load_rpki_begin ==
    /\ loader = Idle
    /\ Calls < MaxLoads
    /\ KnownFormat(disk.rpki[1])
    /\ loader' = [op |-> "load_rpki", at |-> 1, before |-> roas.rpki, reload |-> loads.rpki >= 1]
    /\ call' = [op |-> "load_rpki"]
    /\ result' = Loading
    /\ UNCHANGED <<disk, roas, delegated, loads>>

\* one turn of the loop over data['roas']
load_rpki_step ==
    /\ loader.op = "load_rpki"
    /\ loader.at <= Len(LoaderRecs)
    /\ LET r == load_roas(roas.rpki, <<LoaderRecs[loader.at]>>, 1)
       IN  /\ roas' = [roas EXCEPT !.rpki = r.tree]
           /\ IF r.err = ""
              THEN /\ loader' = [loader EXCEPT !.at = @ + 1]
                   /\ result' = Loading
                   /\ UNCHANGED loads
              ELSE /\ loader' = Idle
                   /\ result' = Loaded("load_rpki", r.err)
                   /\ loads' = [loads EXCEPT !.rpki = @ + 1]
    /\ UNCHANGED <<disk, delegated, call>>

load_rpki_end ==
    /\ loader.op = "load_rpki"
    /\ loader.at > Len(LoaderRecs)
    /\ loader' = Idle
    /\ result' = Loaded("load_rpki", "")
    /\ loads' = [loads EXCEPT !.rpki = @ + 1]
    /\ UNCHANGED <<disk, roas, delegated, call>>

\* check(prefix, origin_asn) called from another thread
reader_check ==
    /\ \E prefix \in PrefixStr, origin_asn \in ASNs :
          /\ result' = check(roas, delegated, prefix, origin_asn)
          /\ call' = [op |-> "check", prefix |-> prefix, asn |-> origin_asn]
    /\ UNCHANGED <<disk, roas, delegated, loads, loader>>

\* lookup(prefix) called from another thread
reader_lookup ==
    /\ \E prefix \in PrefixStr :
          /\ result' = lookup(roas, delegated, prefix)
          /\ call' = [op |-> "lookup", prefix |-> prefix]
    /\ UNCHANGED <<disk, roas, delegated, loads, loader>>

InitReload ==
    /\ \E recs \in SeqsUpTo(RpkiRecs, MaxRecs) :
          disk = [rpki |-> <<JsonFile(recs)>>, irr |-> << >>, delegated |-> << >>]
    /\ Fresh

NextReload ==
    \/ load_rpki_begin
    \/ load_rpki_step
    \/ load_rpki_end
    \/ reader_check
    \/ reader_lookup

SpecReload == InitReload /\ [][NextReload]_vars

\* the rpki tree when the running load has finished
AfterLoad == load_rpki_files(loader.before, disk.rpki, 1).tree

WithRpki(tree) == [roas EXCEPT !.rpki = tree]

\* C16 as claimed: a query made while a reload runs returns what it returns
\* on the index as it was before the reload or on the index as the reload
\* leaves it, never a result of a partly updated index.
C16_Snapshot ==
    (loader.op = "load_rpki" /\ loader.reload) =>
        /\ result.op = "check" =>
              \/ result = check(WithRpki(loader.before), delegated, call.prefix, call.asn)
              \/ result = check(WithRpki(AfterLoad), delegated, call.prefix, call.asn)
        /\ result.op = "lookup" =>
              \/ result = lookup(WithRpki(loader.before), delegated, call.prefix)
              \/ result = lookup(WithRpki(AfterLoad), delegated, call.prefix)

(***************************************************************************)
(* The engine queried with prefix strings that are not "address/length".   *)
(***************************************************************************)
Malformed == {[bad |-> "nolen", addr |-> a] : a \in Addrs} \cup
             {[bad |-> "badlen", addr |-> a] : a \in Addrs} \cup
             {[bad |-> "badaddr", len |-> l] : l \in 0..AddrBits}

NextMalformed ==
    \/ do_load_rpki
    \/ do_check(Malformed, ASNs)
    \/ do_lookup(Malformed)

SpecMalformed == InitReload /\ [][NextMalformed]_vars

\* C18 as claimed: check and lookup of a prefix string without a length,
\* with a length that is no number or with an address that does not parse
\* raise instead of returning a result.
C18_MalformedPrefix ==
    (result.op \in {"check", "lookup"} /\ IsMalformed(call.prefix)) => result.raised # ""

\* C19: the query field of the result of check(P, A) holds the prefix string
\* P as it was passed and the AS number A.
C19_QueryEcho ==
    Checked => (result.query.prefix = call.prefix /\ result.query.asn = call.asn)

C19_Witness ==
    /\ Checked
    /\ call.op = "check"
    /\ Network(call.prefix) # call.prefix
    /\ result.rpki.status = "Valid"

(***************************************************************************)
(* The engine over the three sources together, the RPKI file holding       *)
(* records that do not parse.                                              *)
(***************************************************************************)
InitSources ==
    /\ \E recs \in SeqsUpTo(JsonRecs, MaxRecs), objs \in SeqsUpTo(IrrObjects, 1) :
          disk = [rpki |-> <<JsonFile(recs)>>, irr |-> <<Flatten(objs)>>,
                  delegated |-> <<SmallStats>>]
    /\ Fresh

NextSources ==
    \/ do_load_rpki
    \/ do_load_irr
    \/ do_load_delegated
    \/ do_check(PrefixStr, ASNs)

SpecSources == InitSources /\ [][NextSources]_vars

\* indices an engine can hold instead: the trees load_rpki and load_irr leave
\* from an empty tree, the delegated indices before and after load_delegated
OtherRpki == {load_rpki_files(Radix, <<JsonFile(recs)>>, 1).tree : recs \in SeqsUpTo(JsonRecs, 1)}

OtherIrr == {load_irr_files(Radix, <<Flatten(objs)>>, 1).tree : objs \in SeqsUpTo(IrrObjects, 1)}

OtherDelegated ==
    LET r == load_delegated_files([prefix |-> Radix, asn |-> IntervalDict], << >>, <<SmallStats>>, 1)
    IN  {[prefix |-> Radix, asn |-> IntervalDict], [prefix |-> r.prefix, asn |-> r.asn]}

\* what check gives for the source s: its status, prefix and entry, or the exception
Outcome(r, s) == IF r.raised = "" THEN [raised |-> "", status |-> r[s]]
                 ELSE [raised |-> r.raised, status |-> NoRoa]

\* C21 as claimed: check(P, A) gives the same status, prefix and entry for a
\* source in every engine that holds the same index of that source, whatever
\* the other source's index and the delegated indices hold.
C21_Independent ==
    call.op = "check" =>
        \A d \in OtherDelegated :
            /\ \A t \in OtherRpki :
                  Outcome(check([irr |-> roas.irr, rpki |-> t], d, call.prefix, call.asn), "irr")
                    = Outcome(result, "irr")
            /\ \A t \in OtherIrr :
                  Outcome(check([irr |-> t, rpki |-> roas.rpki], d, call.prefix, call.asn), "rpki")
                    = Outcome(result, "rpki")

(***************************************************************************)
(* The claims about the delegated prefixes.                                *)
(***************************************************************************)
IsPrefixLine(line) == line.kind = "rec" /\ line.rec.type \in {"ipv4", "ipv6"}

PrefixAt == {i \in 1..Len(StatsFile) : IsPrefixLine(StatsFile[i])}

\* the node the line i is stored at
LineNode(i) == Network([addr |-> StatsFile[i].rec.start, len |-> prefix_len(StatsFile[i].rec)])

\* C23 as claimed: the status check(P, A) gives for a source is settled by the
\* covering nodes: NotFound when there is none, Valid when some covering node
\* has an A-entry that passes the test, Invalid,more-specific when some
\* covering node is keyed by A and no entry passes, Invalid otherwise.
C23_Total ==
    Checked => \A s \in Sources :
        LET p == result.query.prefix
            a == result.query.asn
            N == CoveringNodes(s, p)
        IN  result[s].status =
              IF N = {} THEN "NotFound"
              ELSE IF \E n \in N : Qualifies(s, n, a, p) THEN "Valid"
              ELSE IF \E n \in N : KeyedBy(s, n, a) THEN "Invalid,more-specific"
              ELSE "Invalid"

\* C24 as claimed: after any sequence of loads, the ones stopped by an
\* exception included, every node of the rpki and irr trees has an AS key and
\* every AS key has a list with at least one entry.
C24_NonEmpty ==
    \A s \in Sources : \A n \in DOMAIN roas[s] :
        /\ Len(roas[s][n]) > 0
        /\ \A i \in 1..Len(roas[s][n]) : Len(roas[s][n][i].roas) > 0

\* C25 as claimed: a status Invalid,more-specific reports the least specific
\* covering node keyed by A and the last entry of that node's A list.
C25_LeastSpecific ==
    Checked => \A s \in Sources :
        result[s].status = "Invalid,more-specific" =>
            LET K == {n \in CoveringNodes(s, result.query.prefix) : KeyedBy(s, n, result.query.asn)}
            IN  /\ K # {}
                /\ result[s].prefix = LeastSpecific(K)
                /\ EntriesOf(s, LeastSpecific(K), result.query.asn) # << >>
                /\ result[s].roa = EntriesOf(s, LeastSpecific(K), result.query.asn)[
                                       Len(EntriesOf(s, LeastSpecific(K), result.query.asn))]

\* the number an address stands for
RECURSIVE AddrNum(_)
AddrNum(addr) == IF addr = << >> THEN 0
                 ELSE 2 * AddrNum(SubSeq(addr, 1, Len(addr) - 1)) + addr[Len(addr)]

\* the addresses the node n covers
Covered(n) == {AddrNum(a) : a \in {b \in Addrs : Covers(n, [addr |-> b, len |-> AddrBits])}}

\* the addresses s .. s+v-1 of the line i
LineAddrs(i) == AddrNum(StatsFile[i].rec.start)..(AddrNum(StatsFile[i].rec.start) + StatsFile[i].rec.value - 1)

\* C22 as claimed: for an ipv4 line with start address s and v addresses (all of
\* them in the address space) load_delegated inserts a prefix of s that holds
\* v addresses and covers exactly s .. s+v-1; for an ipv6 line it inserts the
\* prefix whose length is the value field.
C22_ExactPrefix ==
    DelegatedLoaded =>
        \A i \in PrefixAt :
            LET rec == StatsFile[i].rec
            IN  IF rec.type = "ipv4"
                THEN LineAddrs(i) \subseteq 0..(Pow2(AddrBits) - 1) =>
                        \E n \in DOMAIN delegated.prefix :
                            /\ n = Network([addr |-> rec.start, len |-> n.len])
                            /\ Pow2(AddrBits - n.len) = rec.value
                            /\ Covered(n) = LineAddrs(i)
                ELSE Network([addr |-> rec.start, len |-> rec.value]) \in DOMAIN delegated.prefix

\* the delegation prefixes covering the prefix string p
DelegatedCovering(p) == {n \in DOMAIN delegated.prefix : Covers(n, p)}

\* C11: check(P, A).delegated.prefix is the record of the most specific
\* delegation prefix covering P, with the status, registry, country and date
\* of the last line of that prefix, and it is {status: NotFound} exactly when
\* no delegation prefix covers P.
C11_DelegatedPrefix ==
    (DelegatedLoaded /\ Checked) =>
        LET N == DelegatedCovering(result.query.prefix)
            d == result.delegated.prefix
        IN  IF N = {} THEN d = [status |-> "NotFound"]
            ELSE /\ d = delegated.prefix[MostSpecific(N)]
                 /\ d.status # "NotFound"
                 /\ \E i \in PrefixAt :
                       /\ LineNode(i) = MostSpecific(N)
                       /\ \A j \in PrefixAt : j > i => LineNode(j) # LineNode(i)
                       /\ d.status = StatsFile[i].rec.status
                       /\ d.registry = StatsFile[i].rec.registry
                       /\ d.country = StatsFile[i].rec.cc
                       /\ d.date = StatsFile[i].rec.date

C11_Witness ==
    /\ DelegatedLoaded
    /\ Checked
    /\ Cardinality(DelegatedCovering(result.query.prefix)) = 2
    /\ result.delegated.prefix.registry = "arin"
    /\ Network(result.query.prefix) \notin DOMAIN delegated.prefix

====
